---- MODULE Spec2Model ----
(***************************************************************************)
(* Model of bun-build-watch: the dependency scanner (src/find-imports.ts)  *)
(* and the watch/rebuild lifecycle (src/dep-watcher.ts).                   *)
(*                                                                         *)
(* A JS Set is an insertion-ordered sequence without duplicates, a JS Map  *)
(* (PathsMap) a sequence of [key, val] records in insertion order.         *)
(***************************************************************************)
EXTENDS Integers, Sequences, FiniteSets, TLC

\* ------------------------------------------------------------------------
\* Bounds of the model
\* ------------------------------------------------------------------------
Files == {"a", "b", "c", "d"}

\* order in which the specifiers of one file are written
FileOrder == <<"a", "b", "c", "d">>

\* files that contain no import statement in any tree
Leaves == {"d"}

\* most import specifiers in one file
MaxImports == 2

\* most calls of watch(), rescan() and close() in one run
MaxCalls == 3

\* most writes, removals and creations of files in one run
MaxEdits == 1

\* ------------------------------------------------------------------------
\* State
\* ------------------------------------------------------------------------
VARIABLES
    \* the file tree and the configuration
    imports,        \* file -> set of files its specifiers resolve to
    exists,         \* files present on disk
    excluded,       \* files matched by an exclusion glob
    nonScript,      \* files whose name does not end in js|jsx|ts|tsx
    unparseable,    \* files on which scanImports raises a BuildMessage
    unresolvable,   \* files holding a specifier on which the resolver throws
    fullPaths,      \* DependencyWatcher.fullPaths / the paths given to findImports
    \* one run of findImports, layer by layer
    allPaths,       \* findImports: allPaths
    foundPaths,     \* findImports: foundPaths
    layerFiles,     \* findImportsOnce: filePaths
    pending,        \* files of the layer whose task has not settled
    layerOut,       \* file -> children found by its task
    scanPc,         \* "merge" | "expand" | "returned" | "failed"
    scanResult,     \* what findImports returned or threw
    expandLog,      \* every file task that ran, in order
    \* the watcher
    isBuild,        \* the object is a BuildWatcher
    rescanOpt,      \* BuildWatchOptions.rescan
    state,          \* DependencyWatcher.state
    handles,        \* every FSWatcher ever created: [path, active, closes]
    watchers,       \* DependencyWatcher.watchers, as indices into handles
    calls,          \* every execution of watch()/rescan() and its promise
    closeListeners, \* once("close") listeners registered by rescan()
    listening,      \* listeners registered at construction are still attached
    watchOnce,      \* the once("watch") listener of BuildWatcher is attached
    builds,         \* Bun.build calls in flight
    buildCalls,     \* Bun.build calls started
    notifs,         \* native notifications not yet delivered
    watchEvents,    \* payloads of the watch events delivered to listeners
    changeEvents,   \* change events delivered to listeners
    buildEvents,    \* build events delivered to listeners
    closeEvents,    \* close events delivered to listeners
    apiCalls,       \* calls of watch(), rescan(), close() made by the caller
    edits           \* file system modifications made so far

treeVars == <<imports, exists, excluded, nonScript, unparseable, unresolvable, fullPaths>>
scanVars == <<allPaths, foundPaths, layerFiles, pending, layerOut, scanPc, scanResult, expandLog>>
confVars == <<isBuild, rescanOpt>>
watchVars == <<state, handles, watchers, calls, closeListeners, listening, watchOnce,
               builds, buildCalls, notifs, watchEvents, changeEvents, buildEvents,
               closeEvents, apiCalls, edits>>
vars == <<treeVars, scanVars, confVars, watchVars>>

\* ------------------------------------------------------------------------
\* JS Set and Map
\* ------------------------------------------------------------------------
Range(s) == {s[i] : i \in DOMAIN s}

\* new Set(iterable): the first occurrence of every element, in order
NewSet(s) ==
    LET first == SelectSeq([i \in DOMAIN s |-> i],
                           LAMBDA i : \A j \in 1..(i - 1) : s[j] # s[i])
    IN [k \in DOMAIN first |-> s[first[k]]]

SeqOf(S) == SelectSeq(FileOrder, LAMBDA f : f \in S)

\* Set.prototype.isDisjointFrom / intersection / union
isDisjointFrom(s, t) == Range(s) \cap Range(t) = {}
intersection(s, t) ==
    IF Len(s) <= Len(t) THEN SelectSeq(s, LAMBDA x : x \in Range(t))
    ELSE SelectSeq(t, LAMBDA x : x \in Range(s))
union(s, t) == NewSet(s \o t)

\* the sentinel key of the entry paths
Root == ""

MapHas(m, k) == \E i \in DOMAIN m : m[i].key = k
MapGet(m, k) == m[CHOOSE i \in DOMAIN m : m[i].key = k].val
MapSet(m, k, v) ==
    IF MapHas(m, k)
    THEN [i \in DOMAIN m |-> IF m[i].key = k THEN [key |-> k, val |-> v] ELSE m[i]]
    ELSE Append(m, [key |-> k, val |-> v])
MapKeys(m) == {m[i].key : i \in DOMAIN m}

\* map.values().flatMap((value) => value)
FlatValues(m) ==
    LET F[i \in 0..Len(m)] == IF i = 0 THEN <<>> ELSE F[i - 1] \o m[i].val
    IN F[Len(m)]

NoResult == [status |-> "none", paths |-> <<>>, parent |-> Root, children |-> <<>>]
Returned(p) == [status |-> "ok", paths |-> p, parent |-> Root, children |-> <<>>]
CyclicError(p, c) == [status |-> "cyclic", paths |-> <<>>, parent |-> p, children |-> c]
ResolveError == [status |-> "resolve", paths |-> <<>>, parent |-> Root, children |-> <<>>]

\* ------------------------------------------------------------------------
\* find-imports.ts
\* ------------------------------------------------------------------------
\* the task of one file rethrowing the error of scanImports
scanFileRethrowing(f) ==
    IF f \in nonScript THEN [kind |-> "skip", children |-> <<>>]
    ELSE IF f \notin exists THEN [kind |-> "skip", children |-> <<>>]
    ELSE IF f \in unparseable THEN [kind |-> "throw", children |-> <<>>]
    ELSE IF f \in unresolvable THEN [kind |-> "throw", children |-> <<>>]
    ELSE [kind |-> "entry",
          children |-> NewSet(SelectSeq(SeqOf(imports[f]),
                           LAMBDA g : g \notin excluded /\ g \in exists))]

\* the task findImportsOnce runs for one file
scanFile(f) ==
    IF f \in nonScript THEN [kind |-> "skip", children |-> <<>>]
    ELSE IF f \notin exists THEN [kind |-> "skip", children |-> <<>>]
    ELSE IF f \in unparseable THEN [kind |-> "skip", children |-> <<>>]
    ELSE IF f \in unresolvable THEN [kind |-> "throw", children |-> <<>>]
    ELSE [kind |-> "entry",
          children |-> NewSet(SelectSeq(SeqOf(imports[f]),
                           LAMBDA g : g \notin excluded /\ g \in exists))]

\* new PathsMap(childFiles.filter((value) => value !== undefined))
collectLayer(files, out) ==
    LET kept == SelectSeq(files, LAMBDA f : out[f].kind = "entry")
    IN [i \in DOMAIN kept |-> [key |-> kept[i], val |-> out[kept[i]].children]]

findImportsOnce(filePaths) ==
    LET out == [f \in Range(filePaths) |-> scanFile(f)]
    IN IF \E f \in Range(filePaths) : out[f].kind = "throw"
       THEN [ok |-> FALSE, map |-> <<>>]
       ELSE [ok |-> TRUE, map |-> collectLayer(filePaths, out)]

\* the result of mergePaths: the map as merged so far and, if it threw, the
\* parent and children of the error
Merged(map) == [ok |-> TRUE, map |-> map, parent |-> Root, children |-> <<>>]
MergeThrew(map, parent, children) ==
    [ok |-> FALSE, map |-> map, parent |-> parent, children |-> children]

\* mergePaths blaming the first parent of the layer instead of the repeated one
RECURSIVE mergeFromBlamingFirst(_, _, _)
mergeFromBlamingFirst(all, found, i) ==
    IF i > Len(found) THEN Merged(all)
    ELSE IF ~MapHas(all, found[i].key)
    THEN mergeFromBlamingFirst(MapSet(all, found[i].key, found[i].val), found, i + 1)
    ELSE IF ~isDisjointFrom(MapGet(all, found[i].key), found[i].val)
    THEN MergeThrew(all, found[1].key,
                    intersection(MapGet(all, found[i].key), found[i].val))
    ELSE mergeFromBlamingFirst(
             MapSet(all, found[i].key, union(MapGet(all, found[i].key), found[i].val)),
             found, i + 1)

mergePathsBlamingFirst(all, found) == mergeFromBlamingFirst(all, found, 1)

\* mergePaths storing the new children of a parent over the recorded ones
RECURSIVE mergeFromOverwriting(_, _, _)
mergeFromOverwriting(all, found, i) ==
    IF i > Len(found) THEN Merged(all)
    ELSE mergeFromOverwriting(MapSet(all, found[i].key, found[i].val), found, i + 1)

mergePathsOverwriting(all, found) == mergeFromOverwriting(all, found, 1)

\* the loop of mergePaths from the i-th entry of foundPaths on
RECURSIVE mergeFrom(_, _, _)
mergeFrom(all, found, i) ==
    IF i > Len(found) THEN Merged(all)
    ELSE IF ~MapHas(all, found[i].key)
    THEN mergeFrom(MapSet(all, found[i].key, found[i].val), found, i + 1)
    ELSE IF ~isDisjointFrom(MapGet(all, found[i].key), found[i].val)
    THEN MergeThrew(all, found[i].key,
                    intersection(MapGet(all, found[i].key), found[i].val))
    ELSE mergeFrom(
             MapSet(all, found[i].key, union(MapGet(all, found[i].key), found[i].val)),
             found, i + 1)

mergePaths(all, found) == mergeFrom(all, found, 1)

RECURSIVE findImportsLoop(_, _)
findImportsLoop(all, found) ==
    IF Len(found) = 0 THEN Returned(NewSet(FlatValues(all)))
    ELSE LET m == mergePaths(all, found)
         IN IF ~m.ok THEN CyclicError(m.parent, m.children)
            ELSE LET next == findImportsOnce(NewSet(FlatValues(found)))
                 IN IF ~next.ok THEN ResolveError
                    ELSE findImportsLoop(m.map, next.map)

findImports(paths) ==
    findImportsLoop(<<>>, <<[key |-> Root, val |-> NewSet(paths)]>>)

\* ------------------------------------------------------------------------
\* The file trees of the scanner specification
\* ------------------------------------------------------------------------
ImportSets == {S \in SUBSET Files : Cardinality(S) <= MaxImports}
Trees == {t \in [Files -> ImportSets] : \A f \in Leaves : t[f] = {}}

\* at most one file of the tree is special
Defects == {<<"none", "a">>} \cup
           ({"missing", "excluded", "nonScript", "unparseable", "unresolvable"} \X Files)

EntryLists == {<<"a">>, <<"a", "b">>}

TreeInit ==
    /\ imports \in Trees
    /\ fullPaths \in EntryLists
    /\ \E d \in Defects :
         /\ exists = IF d[1] = "missing" THEN Files \ {d[2]} ELSE Files
         /\ excluded = IF d[1] = "excluded" THEN {d[2]} ELSE {}
         /\ nonScript = IF d[1] = "nonScript" THEN {d[2]} ELSE {}
         /\ unparseable = IF d[1] = "unparseable" THEN {d[2]} ELSE {}
         /\ unresolvable = IF d[1] = "unresolvable" THEN {d[2]} ELSE {}

ScanStart ==
    /\ allPaths = <<>>
    /\ foundPaths = <<[key |-> Root, val |-> NewSet(fullPaths)]>>
    /\ layerFiles = <<>>
    /\ pending = {}
    /\ layerOut = [f \in Files |-> [kind |-> "skip", children |-> <<>>]]
    /\ scanPc = "merge"
    /\ scanResult = NoResult
    /\ expandLog = <<>>

\* a BuildWatcher constructed without its once("watch") listener
WatcherInitNoWatchListener ==
    /\ state = "ready"
    /\ handles = <<>>
    /\ watchers = <<>>
    /\ calls = <<>>
    /\ closeListeners = 0
    /\ listening = TRUE
    /\ watchOnce = FALSE
    /\ builds = 0
    /\ buildCalls = 0
    /\ notifs = <<>>
    /\ watchEvents = <<>>
    /\ changeEvents = <<>>
    /\ buildEvents = 0
    /\ closeEvents = 0
    /\ apiCalls = 0
    /\ edits = 0

\* the state of a watcher after construction
WatcherInit ==
    /\ state = "ready"
    /\ handles = <<>>
    /\ watchers = <<>>
    /\ calls = <<>>
    /\ closeListeners = 0
    /\ listening = TRUE
    /\ watchOnce = isBuild
    /\ builds = 0
    /\ buildCalls = 0
    /\ notifs = <<>>
    /\ watchEvents = <<>>
    /\ changeEvents = <<>>
    /\ buildEvents = 0
    /\ closeEvents = 0
    /\ apiCalls = 0
    /\ edits = 0

ScanInit ==
    /\ TreeInit
    /\ ScanStart
    /\ isBuild = FALSE /\ rescanOpt = FALSE
    /\ WatcherInit

\* while (foundPaths.size > 0) { mergePaths(...); findImportsOnce(...) starts
ScanMerge ==
    /\ scanPc = "merge"
    /\ Len(foundPaths) > 0
    /\ \E m \in {mergePaths(allPaths, foundPaths)} :
          /\ allPaths' = m.map
          /\ IF m.ok
             THEN /\ layerFiles' = NewSet(FlatValues(foundPaths))
                  /\ pending' = Range(NewSet(FlatValues(foundPaths)))
                  /\ scanPc' = "expand"
                  /\ scanResult' = scanResult
             ELSE /\ scanPc' = "failed"
                  /\ scanResult' = CyclicError(m.parent, m.children)
                  /\ UNCHANGED <<layerFiles, pending>>
    /\ UNCHANGED <<treeVars, confVars, watchVars, foundPaths, layerOut, expandLog>>

\* one task of the Promise.all of findImportsOnce settles
ExpandFile(f) ==
    /\ scanPc = "expand"
    /\ f \in pending
    /\ expandLog' = Append(expandLog, f)
    /\ \E r \in {scanFile(f)} :
          IF r.kind = "throw"
          THEN /\ scanPc' = "failed"
               /\ scanResult' = ResolveError
               /\ UNCHANGED <<pending, layerOut>>
          ELSE /\ layerOut' = [layerOut EXCEPT ![f] = r]
               /\ pending' = pending \ {f}
               /\ UNCHANGED <<scanPc, scanResult>>
    /\ UNCHANGED <<treeVars, confVars, watchVars, allPaths, foundPaths, layerFiles>>

\* findImportsOnce resolving as soon as one task has settled
LayerDoneEarly ==
    /\ scanPc = "expand"
    /\ pending # Range(layerFiles) \/ pending = {}
    /\ foundPaths' = collectLayer(layerFiles, layerOut)
    /\ scanPc' = "merge"
    /\ UNCHANGED <<treeVars, confVars, watchVars, allPaths, layerFiles, pending, layerOut, scanResult, expandLog>>

\* the Promise.all of findImportsOnce resolves
LayerDone ==
    /\ scanPc = "expand"
    /\ pending = {}
    /\ foundPaths' = collectLayer(layerFiles, layerOut)
    /\ scanPc' = "merge"
    /\ UNCHANGED <<treeVars, confVars, watchVars, allPaths, layerFiles, pending, layerOut, scanResult, expandLog>>

\* a loop that goes on when foundPaths is empty: it merges nothing and
\* scans nothing, for ever
ScanReturnLoopsOn ==
    /\ scanPc = "merge"
    /\ Len(foundPaths) = 0
    /\ UNCHANGED vars

\* the loop ends: return new Set(allPaths.values().flatMap(...))
ScanReturn ==
    /\ scanPc = "merge"
    /\ Len(foundPaths) = 0
    /\ scanPc' = "returned"
    /\ scanResult' = Returned(NewSet(FlatValues(allPaths)))
    /\ UNCHANGED <<treeVars, confVars, watchVars, allPaths, foundPaths, layerFiles, pending, layerOut, expandLog>>

\* the files the environment deletes during a scan
Deleted == {"c"}

\* a file is deleted between its discovery and its expansion
ScanRemoveFile(f) ==
    /\ scanPc = "expand"
    /\ f \in pending
    /\ edits < MaxEdits
    /\ f \in exists
    /\ edits' = edits + 1
    /\ exists' = exists \ {f}
    /\ UNCHANGED <<imports, excluded, nonScript, unparseable, unresolvable, fullPaths,
                   scanVars, confVars, state, handles, watchers, calls, closeListeners,
                   listening, watchOnce, builds, buildCalls, notifs, watchEvents,
                   changeEvents, buildEvents, closeEvents, apiCalls>>

ScanNext ==
    \/ ScanMerge
    \/ \E f \in Files : ExpandFile(f)
    \/ LayerDone
    \/ ScanReturn
    \/ \E f \in Deleted : ScanRemoveFile(f)

SpecScan == ScanInit /\ [][ScanNext]_vars

\* ------------------------------------------------------------------------
\* dep-watcher.ts: DependencyWatcher and BuildWatcher
\* ------------------------------------------------------------------------
\* the scanner variables are not used by the watcher specification
ScanIdle ==
    /\ allPaths = <<>>
    /\ foundPaths = <<>>
    /\ layerFiles = <<>>
    /\ pending = {}
    /\ layerOut = [f \in Files |-> [kind |-> "skip", children |-> <<>>]]
    /\ scanPc = "idle"
    /\ scanResult = NoResult
    /\ expandLog = <<>>

\* the trees a watched project starts from
WatchTrees == {t \in Trees : t["a"] = {"b"} /\ t["b"] \in {{}, {"c"}} /\ t["c"] = {}}

\* what a write may leave as the imports of a file
WrittenImports == {{}, {"a"}, {"c"}}

\* the files the environment removes and creates
Edited == {"b"}

\* the files the environment writes
Written == {"a", "b"}

Init ==
    /\ imports \in WatchTrees
    /\ exists \in {Files, Files \ {"b"}}
    /\ excluded = {} /\ nonScript = {} /\ unparseable = {} /\ unresolvable = {}
    /\ fullPaths \in EntryLists
    /\ isBuild \in BOOLEAN
    /\ rescanOpt \in {r \in BOOLEAN : r => isBuild}
    /\ ScanIdle
    /\ WatcherInit

\* for (const watcher of this.watchers) watcher.close(), run k times
ClosedAll(hs, ws, k) ==
    [i \in DOMAIN hs |->
        IF i \in Range(ws)
        THEN [hs[i] EXCEPT !.active = FALSE, !.closes = @ + k]
        ELSE hs[i]]

\* a closed FSWatcher delivers nothing any more
LiveNotifs(nq, hs) == SelectSeq(nq, LAMBDA n : hs[n.handle].active)

ActiveHandles == {i \in DOMAIN handles : handles[i].active}

InFlight == {i \in DOMAIN calls : calls[i].status = "pending"}

\* the record of one execution: its promise (status, error, paths) and what
\* the watcher looked like when it was called
Call(op, status, error, paths) ==
    [op |-> op, status |-> status, error |-> error, paths |-> paths,
     from |-> state, alone |-> InFlight = {},
     activeBefore |-> ActiveHandles, watchersBefore |-> watchers]

\* rescan() without its check of the closed state
rescanEnterUnchecked(op) ==
    /\ handles' = ClosedAll(handles, watchers, 1)
    /\ notifs' = LiveNotifs(notifs, ClosedAll(handles, watchers, 1))
    /\ state' = "watching"
    /\ calls' = Append(calls, Call(op, "pending", "", <<>>))

\* rescan() returning quietly on a closed watcher
rescanEnterQuietWhenClosed(op) ==
    IF state = "closed"
    THEN /\ calls' = Append(calls, Call(op, "resolved", "", <<>>))
         /\ UNCHANGED <<state, handles, notifs>>
    ELSE /\ handles' = ClosedAll(handles, watchers, 1)
         /\ notifs' = LiveNotifs(notifs, ClosedAll(handles, watchers, 1))
         /\ state' = "watching"
         /\ calls' = Append(calls, Call(op, "pending", "", <<>>))

\* rescan() setting the state only after its scan has succeeded
rescanEnterStaysReady(op) ==
    IF state = "closed"
    THEN /\ calls' = Append(calls, Call(op, "rejected", "closed", <<>>))
         /\ UNCHANGED <<state, handles, notifs>>
    ELSE /\ handles' = ClosedAll(handles, watchers, 1)
         /\ notifs' = LiveNotifs(notifs, ClosedAll(handles, watchers, 1))
         /\ state' = state
         /\ calls' = Append(calls, Call(op, "pending", "", <<>>))

\* rescan() up to its await of findImports
rescanEnter(op) ==
    IF state = "closed"
    THEN /\ calls' = Append(calls, Call(op, "rejected", "closed", <<>>))
         /\ UNCHANGED <<state, handles, notifs>>
    ELSE /\ handles' = ClosedAll(handles, watchers, 1)
         /\ notifs' = LiveNotifs(notifs, ClosedAll(handles, watchers, 1))
         /\ state' = "watching"
         /\ calls' = Append(calls, Call(op, "pending", "", <<>>))

rescan ==
    /\ apiCalls < MaxCalls
    /\ apiCalls' = apiCalls + 1
    /\ rescanEnter("rescan")
    /\ UNCHANGED <<treeVars, scanVars, confVars, watchers, closeListeners, listening,
                   watchOnce, builds, buildCalls, watchEvents, changeEvents,
                   buildEvents, closeEvents, edits>>

\* watch() without its check of the watching state
watchAlwaysRescans ==
    /\ apiCalls < MaxCalls
    /\ apiCalls' = apiCalls + 1
    /\ rescanEnter("watch")
    /\ UNCHANGED <<treeVars, scanVars, confVars, watchers, closeListeners, listening,
                   watchOnce, builds, buildCalls, watchEvents, changeEvents,
                   buildEvents, closeEvents, edits>>

\* starts watching files, doing nothing if already watching
watch ==
    /\ apiCalls < MaxCalls
    /\ apiCalls' = apiCalls + 1
    /\ IF state = "watching"
       THEN /\ calls' = Append(calls, Call("watch", "noop", "", <<>>))
            /\ UNCHANGED <<state, handles, notifs>>
       ELSE rescanEnter("watch")
    /\ UNCHANGED <<treeVars, scanVars, confVars, watchers, closeListeners, listening,
                   watchOnce, builds, buildCalls, watchEvents, changeEvents,
                   buildEvents, closeEvents, edits>>

\* index of the first path fs.watch throws on, 0 if there is none
FirstMissing(paths) ==
    IF \A i \in DOMAIN paths : paths[i] \in exists THEN 0
    ELSE CHOOSE i \in DOMAIN paths :
            /\ paths[i] \notin exists
            /\ \A j \in 1..(i - 1) : paths[j] \in exists

NewHandles(paths, n) ==
    [i \in 1..n |-> [path |-> paths[i], active |-> TRUE, closes |-> 0]]

\* a watch event emitted only when the discovered set has changed
WatchDeliveredIfChanged(paths) ==
    IF listening /\ (watchEvents = <<>> \/ watchEvents[Len(watchEvents)] # paths)
    THEN Append(watchEvents, paths)
    ELSE watchEvents

\* this.emit("watch", pathsArray), as seen by the listeners
WatchDelivered(paths) ==
    IF listening THEN Append(watchEvents, paths) ELSE watchEvents

\* rescan() with the build listener of BuildWatcher attached by on("watch")
rescanResumeBuildsOnEveryWatch(c) ==
    /\ c \in InFlight
    /\ \E r \in {findImports(fullPaths)} :
       LET miss == FirstMissing(r.paths)
       IN IF r.status # "ok"
          THEN /\ calls' = [calls EXCEPT ![c].status = "rejected", ![c].error = r.status]
               /\ UNCHANGED <<handles, watchers, closeListeners, watchOnce, builds,
                              buildCalls, watchEvents>>
          ELSE IF miss # 0
          THEN /\ handles' = handles \o NewHandles(r.paths, miss - 1)
               /\ calls' = [calls EXCEPT ![c].status = "rejected", ![c].error = "enoent"]
               /\ UNCHANGED <<watchers, closeListeners, watchOnce, builds, buildCalls,
                              watchEvents>>
          ELSE /\ handles' = handles \o NewHandles(r.paths, Len(r.paths))
               /\ watchers' = [i \in 1..Len(r.paths) |-> Len(handles) + i]
               /\ closeListeners' = closeListeners + 1
               /\ watchEvents' = WatchDelivered(r.paths)
               /\ IF watchOnce
                  THEN /\ watchOnce' = watchOnce
                       /\ builds' = builds + 1
                       /\ buildCalls' = buildCalls + 1
                  ELSE UNCHANGED <<watchOnce, builds, buildCalls>>
               /\ calls' = [calls EXCEPT ![c].status = "resolved", ![c].paths = r.paths]
    /\ UNCHANGED <<treeVars, scanVars, confVars, state, listening, notifs, changeEvents,
                   buildEvents, closeEvents, apiCalls, edits>>

\* rescan() from the moment findImports settles
rescanResume(c) ==
    /\ c \in InFlight
    /\ \E r \in {findImports(fullPaths)} :
       LET miss == FirstMissing(r.paths)
       IN IF r.status # "ok"
          THEN /\ calls' = [calls EXCEPT ![c].status = "rejected", ![c].error = r.status]
               /\ UNCHANGED <<handles, watchers, closeListeners, watchOnce, builds,
                              buildCalls, watchEvents>>
          ELSE IF miss # 0
          THEN /\ handles' = handles \o NewHandles(r.paths, miss - 1)
               /\ calls' = [calls EXCEPT ![c].status = "rejected", ![c].error = "enoent"]
               /\ UNCHANGED <<watchers, closeListeners, watchOnce, builds, buildCalls,
                              watchEvents>>
          ELSE /\ handles' = handles \o NewHandles(r.paths, Len(r.paths))
               /\ watchers' = [i \in 1..Len(r.paths) |-> Len(handles) + i]
               /\ closeListeners' = closeListeners + 1
               /\ watchEvents' = WatchDelivered(r.paths)
               /\ IF watchOnce
                  THEN /\ watchOnce' = FALSE
                       /\ builds' = builds + 1
                       /\ buildCalls' = buildCalls + 1
                  ELSE UNCHANGED <<watchOnce, builds, buildCalls>>
               /\ calls' = [calls EXCEPT ![c].status = "resolved", ![c].paths = r.paths]
    /\ UNCHANGED <<treeVars, scanVars, confVars, state, listening, notifs, changeEvents,
                   buildEvents, closeEvents, apiCalls, edits>>

\* close() without its check of the closed state
closeUnchecked ==
    /\ apiCalls < MaxCalls
    /\ apiCalls' = apiCalls + 1
    /\ handles' = ClosedAll(handles, watchers, 1 + closeListeners)
    /\ notifs' = LiveNotifs(notifs, ClosedAll(handles, watchers, 1))
    /\ state' = "closed"
    /\ closeEvents' = closeEvents + 1
    /\ closeListeners' = 0
    /\ listening' = FALSE
    /\ watchOnce' = FALSE
    /\ UNCHANGED <<treeVars, scanVars, confVars, watchers, calls, builds, buildCalls,
                   watchEvents, changeEvents, buildEvents, edits>>

\* close() leaving the listeners of watch, change and build attached
closeKeepsListeners ==
    /\ apiCalls < MaxCalls
    /\ apiCalls' = apiCalls + 1
    /\ IF state = "closed"
       THEN UNCHANGED <<state, handles, notifs, closeListeners, listening, watchOnce,
                        closeEvents>>
       ELSE /\ handles' = ClosedAll(handles, watchers, 1 + closeListeners)
            /\ notifs' = LiveNotifs(notifs, ClosedAll(handles, watchers, 1))
            /\ state' = "closed"
            /\ closeEvents' = closeEvents + 1
            /\ closeListeners' = 0
            /\ listening' = listening
            /\ watchOnce' = FALSE
    /\ UNCHANGED <<treeVars, scanVars, confVars, watchers, calls, builds, buildCalls,
                   watchEvents, changeEvents, buildEvents, edits>>

\* close() leaving the once("watch") listener of BuildWatcher attached
closeKeepsWatchOnce ==
    /\ apiCalls < MaxCalls
    /\ apiCalls' = apiCalls + 1
    /\ IF state = "closed"
       THEN UNCHANGED <<state, handles, notifs, closeListeners, listening, watchOnce,
                        closeEvents>>
       ELSE /\ handles' = ClosedAll(handles, watchers, 1 + closeListeners)
            /\ notifs' = LiveNotifs(notifs, ClosedAll(handles, watchers, 1))
            /\ state' = "closed"
            /\ closeEvents' = closeEvents + 1
            /\ closeListeners' = 0
            /\ listening' = FALSE
            /\ watchOnce' = watchOnce
    /\ UNCHANGED <<treeVars, scanVars, confVars, watchers, calls, builds, buildCalls,
                   watchEvents, changeEvents, buildEvents, edits>>

\* stops watching files
close ==
    /\ apiCalls < MaxCalls
    /\ apiCalls' = apiCalls + 1
    /\ IF state = "closed"
       THEN UNCHANGED <<state, handles, notifs, closeListeners, listening, watchOnce,
                        closeEvents>>
       ELSE /\ handles' = ClosedAll(handles, watchers, 1 + closeListeners)
            /\ notifs' = LiveNotifs(notifs, ClosedAll(handles, watchers, 1))
            /\ state' = "closed"
            /\ closeEvents' = closeEvents + 1
            /\ closeListeners' = 0
            /\ listening' = FALSE
            /\ watchOnce' = FALSE
    /\ UNCHANGED <<treeVars, scanVars, confVars, watchers, calls, builds, buildCalls,
                   watchEvents, changeEvents, buildEvents, edits>>

\* a BuildWatcher that ignores its rescan option
buildSettlesNeverRescans ==
    /\ builds > 0
    /\ builds' = builds - 1
    /\ buildEvents' = IF listening THEN buildEvents + 1 ELSE buildEvents
    /\ UNCHANGED <<state, handles, notifs, calls>>
    /\ UNCHANGED <<treeVars, scanVars, confVars, watchers, closeListeners, listening,
                   watchOnce, buildCalls, watchEvents, changeEvents, closeEvents,
                   apiCalls, edits>>

\* a Bun.build call settles: emit("build"), and with it the rescan listener
buildSettles ==
    /\ builds > 0
    /\ builds' = builds - 1
    /\ buildEvents' = IF listening THEN buildEvents + 1 ELSE buildEvents
    /\ IF listening /\ rescanOpt
       THEN rescanEnter("auto")
       ELSE UNCHANGED <<state, handles, notifs, calls>>
    /\ UNCHANGED <<treeVars, scanVars, confVars, watchers, closeListeners, listening,
                   watchOnce, buildCalls, watchEvents, changeEvents, closeEvents,
                   apiCalls, edits>>

\* #emitFileChanges dropping a notification equal to the last one it emitted
fsNotifyCoalescing ==
    /\ Len(notifs) > 0
    /\ notifs' = Tail(notifs)
    /\ IF /\ listening
          /\ \/ changeEvents = <<>>
             \/ changeEvents[Len(changeEvents)] #
                    [event |-> Head(notifs).event,
                     filename |-> handles[Head(notifs).handle].path]
       THEN /\ changeEvents' = Append(changeEvents,
                                  [event |-> Head(notifs).event,
                                   filename |-> handles[Head(notifs).handle].path])
            /\ IF isBuild
               THEN builds' = builds + 1 /\ buildCalls' = buildCalls + 1
               ELSE UNCHANGED <<builds, buildCalls>>
       ELSE UNCHANGED <<changeEvents, builds, buildCalls>>
    /\ UNCHANGED <<treeVars, scanVars, confVars, state, handles, watchers, calls,
                   closeListeners, listening, watchOnce, watchEvents, buildEvents,
                   closeEvents, apiCalls, edits>>

\* a change listener that starts no build while one is in flight
fsNotifySkipsWhenBuilding ==
    /\ Len(notifs) > 0
    /\ notifs' = Tail(notifs)
    /\ IF listening
       THEN /\ changeEvents' = Append(changeEvents,
                                  [event |-> Head(notifs).event,
                                   filename |-> handles[Head(notifs).handle].path])
            /\ IF isBuild /\ builds = 0
               THEN builds' = builds + 1 /\ buildCalls' = buildCalls + 1
               ELSE UNCHANGED <<builds, buildCalls>>
       ELSE UNCHANGED <<changeEvents, builds, buildCalls>>
    /\ UNCHANGED <<treeVars, scanVars, confVars, state, handles, watchers, calls,
                   closeListeners, listening, watchOnce, watchEvents, buildEvents,
                   closeEvents, apiCalls, edits>>

\* the native watcher calls #emitFileChanges: emit("change"), and with it the
\* build listener of BuildWatcher
fsNotify ==
    /\ Len(notifs) > 0
    /\ notifs' = Tail(notifs)
    /\ IF listening
       THEN /\ changeEvents' = Append(changeEvents,
                                  [event |-> Head(notifs).event,
                                   filename |-> handles[Head(notifs).handle].path])
            /\ IF isBuild
               THEN builds' = builds + 1 /\ buildCalls' = buildCalls + 1
               ELSE UNCHANGED <<builds, buildCalls>>
       ELSE UNCHANGED <<changeEvents, builds, buildCalls>>
    /\ UNCHANGED <<treeVars, scanVars, confVars, state, handles, watchers, calls,
                   closeListeners, listening, watchOnce, watchEvents, buildEvents,
                   closeEvents, apiCalls, edits>>

\* ------------------------------------------------------------------------
\* The file system under the watcher
\* ------------------------------------------------------------------------
\* one notification for every active native watcher of f
Notified(f, event) ==
    LET hit == SelectSeq([i \in DOMAIN handles |-> i],
                         LAMBDA i : handles[i].active /\ handles[i].path = f)
    IN notifs \o [i \in DOMAIN hit |-> [handle |-> hit[i], event |-> event]]

writeFile(f, S) ==
    /\ edits < MaxEdits
    /\ f \in exists
    /\ edits' = edits + 1
    /\ imports' = [imports EXCEPT ![f] = S]
    /\ notifs' = Notified(f, "change")
    /\ UNCHANGED <<exists, excluded, nonScript, unparseable, unresolvable, fullPaths,
                   scanVars, confVars, state, handles, watchers, calls, closeListeners,
                   listening, watchOnce, builds, buildCalls, watchEvents, changeEvents,
                   buildEvents, closeEvents, apiCalls>>

removeFile(f) ==
    /\ edits < MaxEdits
    /\ f \in exists
    /\ edits' = edits + 1
    /\ exists' = exists \ {f}
    /\ notifs' = Notified(f, "rename")
    /\ UNCHANGED <<imports, excluded, nonScript, unparseable, unresolvable, fullPaths,
                   scanVars, confVars, state, handles, watchers, calls, closeListeners,
                   listening, watchOnce, builds, buildCalls, watchEvents, changeEvents,
                   buildEvents, closeEvents, apiCalls>>

createFile(f) ==
    /\ edits < MaxEdits
    /\ f \notin exists
    /\ edits' = edits + 1
    /\ exists' = exists \cup {f}
    /\ UNCHANGED <<imports, excluded, nonScript, unparseable, unresolvable, fullPaths,
                   scanVars, confVars, state, handles, watchers, calls, closeListeners,
                   listening, watchOnce, builds, buildCalls, notifs, watchEvents,
                   changeEvents, buildEvents, closeEvents, apiCalls>>

Next ==
    \/ watch
    \/ rescan
    \/ close
    \/ \E c \in DOMAIN calls : rescanResume(c)
    \/ buildSettles
    \/ fsNotify
    \/ \E f \in Written, S \in WrittenImports : writeFile(f, S)
    \/ \E f \in Edited : removeFile(f)
    \/ \E f \in Edited : createFile(f)

Spec == Init /\ [][Next]_vars

\* ------------------------------------------------------------------------
\* The import graph of a tree, stated without the scanner
\* ------------------------------------------------------------------------
\* a file whose imports can be read
Expandable(f) == f \in exists /\ f \notin nonScript /\ f \notin unparseable

\* the imports of f that resolve to existing, non-excluded files
Edges(f) ==
    IF Expandable(f) THEN {g \in imports[f] : g \in exists /\ g \notin excluded} ELSE {}

\* files reachable from S along at most n edges
RECURSIVE Within(_, _)
Within(S, n) ==
    IF n = 0 THEN S
    ELSE LET R == Within(S, n - 1) IN R \cup UNION {Edges(f) : f \in R}

ReachableFrom(S) == Within(S, Cardinality(Files))
Entries == Range(fullPaths)
Reachable == ReachableFrom(Entries)
OnCycle(f) == f \in ReachableFrom(Edges(f))
HasReachableCycle == \E f \in Reachable : OnCycle(f)

\* files reached from the entries by a chain of exactly n imports
RECURSIVE AtDepth(_)
AtDepth(n) == IF n = 0 THEN Entries ELSE UNION {Edges(f) : f \in AtDepth(n - 1)}

ScanDone == scanPc \in {"returned", "failed"}

\* ------------------------------------------------------------------------
\* Claims about the scanner
\* ------------------------------------------------------------------------
\* C1: for every acyclic import graph, diamonds included, findImports
\* returns, and the returned set is the entry paths plus every file reachable
\* from them through imports that resolve to existing, non-excluded files.
\* Stated here for the trees in which every specifier resolves and which do
\* not change during the scan.
C1_AcyclicScanReturnsReachable ==
    (ScanDone /\ edits = 0 /\ unresolvable = {} /\ ~HasReachableCycle)
        => /\ scanResult.status = "ok"
           /\ Range(scanResult.paths) = Entries \cup Reachable

\* C2: for every import graph with a cycle reachable from an entry path
\* through existing, non-excluded, parseable files, findImports fails with the
\* cyclic-import error. Stated for trees that do not change during the scan.
C2_CycleFailsWithCyclicError ==
    (ScanDone /\ edits = 0 /\ HasReachableCycle) => scanResult.status = "cyclic"

\* C3: when the scan fails with the cyclic-import error, the named parent was
\* already a key of the discovered graph before the failing merge, and the
\* listed children are exactly the intersection of the children recorded for
\* it and the children newly found for it; for entry a importing b and b
\* importing a the named parent is a.
C3_CyclicErrorNamesRecordedParent ==
    [][ (scanResult.status # "cyclic" /\ scanResult'.status = "cyclic")
          => /\ MapHas(allPaths, scanResult'.parent)
             /\ MapHas(foundPaths, scanResult'.parent)
             /\ Range(scanResult'.children) =
                    Range(MapGet(allPaths, scanResult'.parent))
                      \cap Range(MapGet(foundPaths, scanResult'.parent))
             /\ scanResult'.children # <<>>
             /\ (fullPaths = <<"a">> /\ Edges("a") = {"b"} /\ Edges("b") = {"a"}
                   /\ unresolvable = {})
                  => scanResult'.parent = "a" ]_vars

C3_Witness ==
    /\ scanPc = "failed"
    /\ scanResult.status = "cyclic"
    /\ fullPaths = <<"a">> /\ Edges("a") = {"b"} /\ Edges("b") = {"a"}
    /\ scanResult.parent = "a"
    /\ Range(scanResult.children) = {"b"}

\* ------------------------------------------------------------------------
\* Claims about the watcher lifecycle
\* ------------------------------------------------------------------------
\* the step starts an execution of op
Called(op) == Len(calls') = Len(calls) + 1 /\ calls'[Len(calls')].op = op

Resolved == {i \in DOMAIN calls : calls[i].status = "resolved"}
Sequential == \A i \in DOMAIN calls : calls[i].alone
ActiveOn(p) == {h \in ActiveHandles : handles[h].path = p}

\* C4: the state never leaves Closed, whatever is called or completes
\* afterwards.
C4_ClosedIsTerminal ==
    [][state = "closed" => state' = "closed"]_vars

\* a scan in flight at close() has completed after it, and watch() was called
\* on the closed watcher
C4_Witness ==
    /\ state = "closed"
    /\ ActiveHandles # {}
    /\ \E i \in DOMAIN calls : calls[i].from = "closed"

\* C5: watch() on a watcher whose state is Watching starts no scan, disposes
\* and creates no handle, leaves the state, emits no event and starts no
\* build.
C5_WatchWhileWatchingIsNoop ==
    [][(state = "watching" /\ Called("watch"))
         => /\ calls'[Len(calls')].status = "noop"
            /\ InFlight' = InFlight
            /\ UNCHANGED <<state, handles, watchers, closeListeners, notifs, watchEvents,
                           changeEvents, buildEvents, closeEvents, builds, buildCalls>>]_vars

C5_Witness ==
    \E i \in DOMAIN calls :
        /\ calls[i].op = "watch" /\ calls[i].from = "watching"
        /\ calls[i].status = "noop"
        /\ calls[i].activeBefore # {}

\* C6: watch() and rescan() on a Closed watcher reject, start no scan, create
\* no handle, emit no event and start no build.
C6_ClosedRejects ==
    [][(state = "closed" /\ (Called("watch") \/ Called("rescan")))
         => /\ calls'[Len(calls')].status = "rejected"
            /\ InFlight' = InFlight
            /\ UNCHANGED <<state, handles, watchers, closeListeners, notifs, watchEvents,
                           changeEvents, buildEvents, closeEvents, builds, buildCalls>>]_vars

C6_Witness ==
    /\ \E i \in DOMAIN calls :
          calls[i].op = "watch" /\ calls[i].from = "closed" /\ calls[i].status = "rejected"
    /\ \E i \in DOMAIN calls :
          calls[i].op = "rescan" /\ calls[i].from = "closed" /\ calls[i].status = "rejected"

\* C7: with a missing entry path, watch() on a Ready watcher rejects and the
\* state is still Ready afterwards.
C7_FailedWatchStaysReady ==
    (/\ apiCalls = 1 /\ Len(calls) = 1
     /\ calls[1].op = "watch" /\ calls[1].from = "ready"
     /\ calls[1].status = "rejected" /\ calls[1].error = "enoent")
        => state = "ready"

\* C8: a rescan() that fails on a Watching watcher leaves the handles that
\* were active before the call active, and the handle list unchanged.
C8_FailedRescanKeepsWatchSet ==
    \A i \in DOMAIN calls :
        (/\ i = Len(calls) /\ Sequential /\ state # "closed"
         /\ calls[i].op = "rescan" /\ calls[i].from = "watching"
         /\ calls[i].status = "rejected")
            => /\ calls[i].activeBefore \subseteq ActiveHandles
               /\ watchers = calls[i].watchersBefore

\* C9: while the watcher is not closed, the watch events number exactly the
\* successful rescan() executions, one each, also when the discovered set
\* repeats.
C9_OneWatchEventPerRescan ==
    state # "closed" => Len(watchEvents) = Cardinality(Resolved)

\* two rescan() calls, one after the other, found the same set
C9_Witness ==
    /\ state # "closed"
    /\ Sequential
    /\ \A i \in Resolved : calls[i].op = "rescan"
    /\ Cardinality(Resolved) = 2
    /\ Len(watchEvents) = 2
    /\ watchEvents[1] = watchEvents[2]

\* C10: after any sequence of watch()/rescan() calls, each awaited before the
\* next, the active handles are exactly one per path of the most recent scan
\* result and every other handle has been disposed.
C10_ActiveHandlesMatchLastScan ==
    (Sequential /\ InFlight = {} /\ state # "closed" /\ Resolved # {})
        => LET last == CHOOSE i \in Resolved : \A j \in Resolved : j <= i
           IN \A p \in Files :
                Cardinality(ActiveOn(p)) =
                    IF p \in Range(calls[last].paths) THEN 1 ELSE 0

\* ------------------------------------------------------------------------
\* Claims about close()
\* ------------------------------------------------------------------------
\* calls of close() made so far: the calls that are not watch() or rescan()
CloseCalls ==
    apiCalls - Cardinality({i \in DOMAIN calls : calls[i].op \in {"watch", "rescan"}})

\* C11: however many times close() is called, and in whatever state the first
\* call finds the watcher, exactly one close event is emitted (and none
\* before the first call).
C11_OneCloseEvent ==
    closeEvents = IF CloseCalls > 0 THEN 1 ELSE 0

\* close() was called twice on a watcher that had been watching
C11_Witness ==
    /\ CloseCalls = 2
    /\ closeEvents = 1
    /\ \E h \in DOMAIN handles : handles[h].closes > 0

\* C12: when every watch() and rescan() before it has succeeded, the first
\* close() invokes the dispose operation exactly once on each handle that is
\* active when it is called, and later close() calls invoke it on none.
C12_CloseDisposesEachHandleOnce ==
    [][(/\ apiCalls' = apiCalls + 1 /\ calls' = calls
        /\ \A i \in DOMAIN calls : calls[i].status = "resolved" /\ calls[i].alone)
         => \A h \in DOMAIN handles :
               handles'[h].closes =
                   handles[h].closes + (IF handles[h].active THEN 1 ELSE 0)]_vars

\* ------------------------------------------------------------------------
\* Claims about events and builds
\* ------------------------------------------------------------------------
\* the step is one call of #emitFileChanges by a native watcher
Delivers ==
    /\ Len(notifs) > 0
    /\ notifs' = Tail(notifs)
    /\ UNCHANGED <<calls, apiCalls, edits>>

\* the first watch event has been emitted
Watched == IF watchEvents = <<>> THEN 0 ELSE 1

\* C13: while the watcher is Watching, every notification a native watcher
\* delivers produces exactly one change event, carrying the event kind and
\* the filename of that notification, and change events come from nothing
\* else: none is dropped, merged with an equal one, or emitted twice.
C13_OneChangeEventPerNotification ==
    [][/\ (Delivers /\ state = "watching")
            => changeEvents' = Append(changeEvents,
                                  [event |-> Head(notifs).event,
                                   filename |-> handles[Head(notifs).handle].path])
       /\ ~Delivers => changeEvents' = changeEvents]_vars

\* two equal notifications in a row each gave their own change event
C13_Witness ==
    /\ state = "watching"
    /\ notifs = <<>>
    /\ Len(changeEvents) = 2
    /\ changeEvents[1] = changeEvents[2]

\* C14: on a BuildWatcher that is not closed and has seen no change, no build
\* is started before the first watch event, exactly one is started once it
\* has been emitted, and that build gives exactly one build event when it
\* settles.
C14_FirstWatchBuildsOnce ==
    (isBuild /\ state # "closed" /\ changeEvents = <<>>)
        => /\ buildCalls = Watched
           /\ buildEvents = buildCalls - builds
           /\ builds \in {0, 1}

\* the build of the first watch event has settled
C14_Witness ==
    /\ isBuild /\ state # "closed" /\ changeEvents = <<>>
    /\ Len(watchEvents) = 1
    /\ buildCalls = 1 /\ builds = 0 /\ buildEvents = 1

C16_LaterWatchEventsBuildNothing ==
    [][(/\ isBuild /\ ~rescanOpt
        /\ watchEvents # <<>>
        /\ Len(watchEvents') = Len(watchEvents) + 1)
         => UNCHANGED <<buildCalls, builds, buildEvents>>]_vars

\* an explicit rescan() gave a second watch event and no second build
C16_Witness ==
    /\ isBuild /\ ~rescanOpt
    /\ Sequential
    /\ Len(watchEvents) = 2
    /\ \E i \in Resolved : calls[i].op = "rescan" /\ calls[i].from = "watching"
    /\ buildCalls = 1

\* C17: with the rescan option enabled every build event starts one rescan,
\* which gives one watch event when its scan succeeds on a watcher that is
\* not closed; with the option disabled a build event starts no rescan and
\* the handle list is replaced only by watch() and rescan() calls.
C17_BuildEventRescansIffOption ==
    [][/\ (buildEvents' = buildEvents + 1)
            => IF rescanOpt
               THEN /\ Called("auto")
                    /\ calls'[Len(calls')].status = "pending"
                    /\ InFlight' = InFlight \cup {Len(calls')}
               ELSE UNCHANGED <<calls, state, handles, watchers>>
       /\ \A c \in DOMAIN calls :
            (/\ calls[c].op = "auto" /\ state # "closed"
             /\ calls[c].status = "pending" /\ calls'[c].status = "resolved")
                => Len(watchEvents') = Len(watchEvents) + 1
       /\ (~rescanOpt /\ watchers' # watchers)
            => \E c \in DOMAIN calls :
                  /\ calls[c].op \in {"watch", "rescan"}
                  /\ calls[c].status = "pending" /\ calls'[c].status = "resolved"]_vars

\* the rescan started by the first build event has given the second watch
\* event
C17_Witness ==
    /\ rescanOpt /\ state # "closed"
    /\ buildEvents = 1
    /\ \E c \in Resolved : calls[c].op = "auto"
    /\ Len(watchEvents) = 2

\* C18: once the watcher is closed, no watch, change or build event reaches
\* the listeners, also when a scan or a build that was in flight at close()
\* completes afterwards.
C18_NoEventAfterClose ==
    [][state = "closed" => UNCHANGED <<watchEvents, changeEvents, buildEvents>>]_vars

\* a build and a scan in flight at close() have both completed after it
C18_Witness ==
    /\ state = "closed" /\ isBuild
    /\ buildCalls = 1 /\ builds = 0 /\ buildEvents = 0
    /\ Cardinality(Resolved) > Len(watchEvents)

\* C19: once a BuildWatcher is closed, no build is started.
C19_NoBuildAfterClose ==
    [][(isBuild /\ state = "closed") => buildCalls' = buildCalls]_vars

\* the first scan of a BuildWatcher succeeded after close(): no build
C19_Witness ==
    /\ state = "closed" /\ isBuild
    /\ Resolved # {}
    /\ watchEvents = <<>>
    /\ buildCalls = 0

\* ------------------------------------------------------------------------
\* Claims about files the scanner cannot read
\* ------------------------------------------------------------------------
\* the step is the task of f settling
Expands(f) == scanPc = "expand" /\ f \in pending /\ expandLog' = Append(expandLog, f)

C21_ResolverFailureIsSkipped ==
    ScanDone => scanResult.status # "resolve"

\* C22: no path of a returned set matches an exclusion pattern, be it an
\* entry path or a discovered import.
C22_ResultHasNoExcludedPath ==
    scanResult.status = "ok" => Range(scanResult.paths) \cap excluded = {}

\* every scan of an unchanged tree ends as the function findImports of the
\* entry paths and the tree says, whatever the order in which the tasks of
\* a layer settle
ScanIsFunctionOfTree ==
    (ScanDone /\ edits = 0) => scanResult = findImports(fullPaths)

\* C23: two scans of the same entry paths over an unchanged tree end alike,
\* and they end in one of two ways: both return the same set, or both fail
\* with the cyclic-import error naming the same parent and children.
C23_ScanIsDeterministic ==
    (ScanDone /\ edits = 0)
        => /\ scanResult = findImports(fullPaths)
           /\ scanResult.status \in {"ok", "cyclic"}

\* ------------------------------------------------------------------------
\* Claims about overlapping and failing lifecycle operations
\* ------------------------------------------------------------------------
\* C24: on a BuildWatcher with the rescan option, whose caller has made one
\* call, watch(), and nothing else, at most one rescan() execution is in
\* flight at any time.
C24_OneRescanInFlight ==
    (isBuild /\ rescanOpt /\ apiCalls = 1
     /\ Len(calls) >= 1 /\ calls[1].op = "watch")
        => Cardinality(InFlight) <= 1

\* C25: when rescan() executions have overlapped and all have completed,
\* every active handle is in the handle list of the watcher and no path has
\* more than one active handle.
C25_OverlappingRescansLeaveNoStrayHandle ==
    (/\ state # "closed" /\ ~Sequential
     /\ \A i \in DOMAIN calls : calls[i].status = "resolved")
        => /\ ActiveHandles \subseteq Range(watchers)
           /\ \A p \in Files : Cardinality(ActiveOn(p)) <= 1

\* C26: in every state with the watcher closed and no rescan() in flight,
\* every handle ever created is disposed.
C26_ClosedHoldsNoActiveHandle ==
    (state = "closed" /\ InFlight = {}) => ActiveHandles = {}

\* C27: when a watch()/rescan() execution rejects, no handle it created is
\* active.
C27_RejectedCallLeavesNoHandle ==
    [][\A c \in DOMAIN calls :
          (calls[c].status = "pending" /\ calls'[c].status = "rejected")
             => \A h \in DOMAIN handles' \ DOMAIN handles : ~handles'[h].active]_vars

\* C28: a watch() called on a watcher that is not closed, right after a
\* watch() on the Ready watcher has rejected, is not a no-op.
C28_WatchAfterRejectedWatchScans ==
    \A i \in DOMAIN calls :
        (/\ i + 1 \in DOMAIN calls
         /\ calls[i].op = "watch" /\ calls[i].from = "ready"
         /\ calls[i].status = "rejected"
         /\ calls[i + 1].op = "watch" /\ calls[i + 1].alone
         /\ calls[i + 1].from # "closed")
            => calls[i + 1].status # "noop"

\* C29: of two watch() calls on a Ready watcher, the second made while the
\* first is in flight, the second is a no-op: one scan runs, and when it
\* succeeds there is one handle per discovered path and one watch event.
C29_BackToBackWatchScansOnce ==
    (/\ apiCalls = 2 /\ Len(calls) = 2
     /\ calls[1].op = "watch" /\ calls[1].from = "ready"
     /\ calls[2].op = "watch" /\ ~calls[2].alone)
        => /\ calls[2].status = "noop"
           /\ IF calls[1].status = "resolved"
              THEN /\ Len(watchEvents) = 1
                   /\ [h \in DOMAIN handles |-> handles[h].path] = calls[1].paths
                   /\ watchers = [h \in DOMAIN handles |-> h]
              ELSE watchEvents = <<>>

\* the first of the two calls has resolved
C29_Witness ==
    /\ apiCalls = 2 /\ Len(calls) = 2
    /\ calls[1].op = "watch" /\ calls[1].from = "ready" /\ calls[1].status = "resolved"
    /\ calls[2].op = "watch" /\ ~calls[2].alone /\ calls[2].status = "noop"
    /\ Len(watchEvents) = 1
    /\ Len(handles) = 2

\* nothing is in flight and nothing is waiting to be delivered
Quiet == InFlight = {} /\ builds = 0 /\ notifs = <<>>

\* C30: with the rescan option, no file change and one successful watch() as
\* the only call, one build is started, its build event starts the only
\* further rescan, whose watch event starts nothing; when all is quiet there
\* have been one build, one build event and two watch events.
C30_RescanAfterBuildEndsTheChain ==
    (/\ isBuild /\ rescanOpt /\ apiCalls = 1 /\ edits = 0
     /\ Len(calls) >= 1 /\ calls[1].op = "watch" /\ calls[1].status = "resolved")
        => /\ buildCalls = 1
           /\ buildEvents + builds = 1
           /\ Len(calls) = 1 + buildEvents
           /\ \A i \in DOMAIN calls : i > 1 => calls[i].op = "auto"
           /\ Len(watchEvents) = Cardinality(Resolved)
           /\ Quiet => /\ buildEvents = 1
                       /\ Len(watchEvents) = 2
                       /\ watchEvents[2] = watchEvents[1]

\* the chain has ended
C30_Witness ==
    /\ isBuild /\ rescanOpt /\ apiCalls = 1 /\ edits = 0
    /\ Len(calls) = 2 /\ calls[1].op = "watch"
    /\ Quiet
    /\ buildCalls = 1 /\ buildEvents = 1
    /\ Len(watchEvents) = 2

\* ------------------------------------------------------------------------
\* Claims about changes and builds around a rescan
\* ------------------------------------------------------------------------
\* the step is a write to f
Writes(f) ==
    /\ edits' = edits + 1
    /\ f \in exists /\ exists' = exists
    /\ \A g \in Files \ {f} : imports'[g] = imports[g]

\* C31: on a BuildWatcher with the rescan option that is not closed and
\* whose caller has only called watch(), a write to a file of the watch set
\* emitted last raises a native notification, without which no change event
\* and no build can follow from it.
C31_WriteToWatchedFileIsNoticed ==
    [][\A f \in Written :
          (/\ isBuild /\ rescanOpt /\ apiCalls = 1 /\ state = "watching"
           /\ watchEvents # <<>>
           /\ f \in Range(watchEvents[Len(watchEvents)])
           /\ Writes(f))
             => Len(notifs') = Len(notifs) + 1]_vars

\* C32: a build has been started only if a watch()/rescan() execution has
\* resolved, that is after a scan succeeded and every discovered path was
\* subscribed; executions that rejected cause none.
C32_BuildOnlyAfterSuccessfulScan ==
    (isBuild /\ buildCalls > 0) => Resolved # {}

\* the step emits a watch event to the listeners
EmitsWatch == Len(watchEvents') = Len(watchEvents) + 1

\* the paths that have an active handle after the step
ActivePathsAfter == {handles'[h].path : h \in {i \in DOMAIN handles' : handles'[i].active}}

\* C33: when a watch event is emitted the state is Watching, the payload is
\* the value the emitting call returns, and the paths that have an active
\* handle are exactly the paths of the payload.
C33_WatchEventMatchesHandles ==
    [][EmitsWatch
         => /\ state' = "watching"
            /\ \E c \in DOMAIN calls :
                  /\ calls[c].status = "pending" /\ calls'[c].status = "resolved"
                  /\ calls'[c].paths = watchEvents'[Len(watchEvents')]
            /\ ActivePathsAfter = Range(watchEvents'[Len(watchEvents')])]_vars

\* ------------------------------------------------------------------------
\* Claims about the layers of a scan
\* ------------------------------------------------------------------------
\* the tasks of expandLog that read their file
ReadLog == SelectSeq(expandLog, LAMBDA f : f \notin nonScript /\ f \in exists)

\* C34: in a scan of an unchanged tree that does not end in the
\* cyclic-import error, no file is read and scanned for its imports twice.
\* Stated here for the trees in which every specifier resolves.
C34_EachFileExpandedOnce ==
    (ScanDone /\ edits = 0 /\ unresolvable = {} /\ scanResult.status # "cyclic")
        => \A i, j \in DOMAIN ReadLog : ReadLog[i] = ReadLog[j] => i = j

\* the longest import chain looked at: a file reached by chains of two
\* lengths is reached by two of at most this length
MaxDepth == 2 * Cardinality(Files)

\* some file with a qualifying import is reached from the entries by import
\* chains of two different lengths
TwoDepths ==
    \E f \in Files :
        /\ Edges(f) # {}
        /\ \E m, n \in 0..MaxDepth : m < n /\ f \in AtDepth(m) /\ f \in AtDepth(n)

\* C35: on an unchanged tree findImports fails with the cyclic-import error
\* exactly when some file with a qualifying import is reached by import
\* chains of two different lengths.
C35_CyclicErrorIffTwoDepths ==
    (ScanDone /\ edits = 0) => (scanResult.status = "cyclic" <=> TwoDepths)

\* the steps of findImports itself
ScanSteps ==
    \/ ScanMerge
    \/ \E f \in Files : ExpandFile(f)
    \/ LayerDone
    \/ ScanReturn

\* a scan is started on a tree whose files can all be read and parsed
FairScanInit ==
    /\ ScanInit
    /\ excluded = {} /\ nonScript = {} /\ unparseable = {}

\* the scan of a tree that stays as it is, as the event loop runs it: a
\* continuation that can run does run
FairSpecScan == FairScanInit /\ [][ScanSteps]_vars /\ WF_vars(ScanSteps)

\* C36: every scan ends: findImports returns a set or fails with an error.
C36_ScanTerminates == <>ScanDone

\* the scan of a tree with a cycle has ended after three expansions or more
C36_Witness ==
    /\ ScanDone
    /\ HasReachableCycle
    /\ Len(expandLog) >= 3
    /\ scanResult.status = "cyclic"

\* C37: the layers of a scan follow one another: the next layer is merged
\* and started only when every task of the layer before has settled, and
\* while a layer is expanded the results of the layer before are merged in
\* the discovered graph and the files being expanded are the children it
\* found; within a layer the tasks settle in any order.
C37_LayersAreSequential ==
    /\ scanPc \in {"merge", "returned"} => pending = {}
    /\ scanPc = "expand"
         => /\ pending \subseteq Range(layerFiles)
            /\ layerFiles = NewSet(FlatValues(foundPaths))
            /\ \A i \in DOMAIN foundPaths :
                  /\ MapHas(allPaths, foundPaths[i].key)
                  /\ Range(foundPaths[i].val)
                        \subseteq Range(MapGet(allPaths, foundPaths[i].key))

\* in the second layer the task of the second file has settled before the
\* task of the first
C37_Witness ==
    /\ scanPc = "expand"
    /\ Len(allPaths) >= 2
    /\ Len(layerFiles) = 2
    /\ pending = {layerFiles[1]}

\* C38: the discovered graph only grows: every key stays, and the children
\* recorded for it after a step include those recorded before.
C38_GraphOnlyGrows ==
    [][\A i \in DOMAIN allPaths :
          /\ MapHas(allPaths', allPaths[i].key)
          /\ Range(allPaths[i].val)
                \subseteq Range(MapGet(allPaths', allPaths[i].key))]_vars

\* a key has been merged a second time and new keys have been added
C38_Witness ==
    /\ scanPc = "returned"
    /\ Len(allPaths) >= 3
    /\ \E i, j \in DOMAIN ReadLog :
          i < j /\ ReadLog[i] = ReadLog[j] /\ MapHas(allPaths, ReadLog[i])

====
